---- MODULE Spec2Model ----
(***************************************************************************)
(* A model of wfl's FHI-Aims calculator adapter (wfl/calculators/aims.py)  *)
(* and of the helpers of wfl/autoparallelize/utils.py (grouper and         *)
(* get_remote_info).                                                       *)
(*                                                                         *)
(* Python strings are TLA+ strings; Len, SubSeq and \o act on them as on   *)
(* sequences of characters.  Python's None is the string "None" wherever a *)
(* variable may hold either None or a name.                                *)
(***************************************************************************)
EXTENDS Integers, Sequences, FiniteSets, TLC

VARIABLES
    \* ---- Aims calculator (aims.py) ----
    parameters,            \* self.parameters: mapping key -> value
    initial_parameters,    \* self.initial_parameters: snapshot taken by __init__
    get_k_grid,            \* self.get_k_grid: "None" or "callback"
    self_atoms,            \* self.atoms: "None" or the system it is a copy of
    info,                  \* info[a]: 'DFT_FAILED_AIMS' in a.info, per system object
    pc,                    \* position inside calculate(): "idle" between calls
    atoms,                 \* calculate()'s argument atoms ("None" when omitted)
    marker_at_entry,       \* 'DFT_FAILED_AIMS' in atoms.info when the call began
    properties,            \* calculate()'s local properties
    calculation_succeeded, \* calculate()'s local: "unbound", "True" or "False"
    k_grid,                \* _setup_calc_params()'s local k_grid
    exec_result,           \* super().calculate() in this call: "NotRun",
                           \* "Returned", or the exception it raised
    exc,                   \* the exception in flight when finally is entered
    setup_calls,           \* number of setup_rundir() invocations of this call
    clean_log,             \* success flags clean_rundir() received in this call
    raised,                \* what the last finished call raised to its caller
    \* ---- grouper (utils.py) ----
    g_n, g_input, g_pos, g_out, g_pc,
    \* ---- get_remote_info (utils.py) ----
    ri_remote_info,        \* the argument remote_info
    ri_remote_label,       \* the argument remote_label ("None" when omitted)
    ri_env,                \* os.environ[env_var], or that it is not set
    ri_stack,              \* the call stack tb.extract_stack() returns
    ri_result,             \* the value returned
    ri_exc,                \* the exception raised ("None": it returned)
    ri_warnings,           \* warnings.warn() calls
    ri_stderr,             \* keys reported on sys.stderr
    ri_pc                  \* "call" before the call, "done" after it

aimsVars == <<parameters, initial_parameters, get_k_grid, self_atoms, info, pc,
              atoms, marker_at_entry, properties, calculation_succeeded, k_grid, exec_result,
              exc, setup_calls, clean_log, raised>>
grouperVars == <<g_n, g_input, g_pos, g_out, g_pc>>
remoteVars == <<ri_remote_info, ri_remote_label, ri_env, ri_stack, ri_result,
                ri_exc, ri_warnings, ri_stderr, ri_pc>>
vars == <<aimsVars, grouperVars, remoteVars>>

(***************************************************************************)
(* Python string operations used by the code.                              *)
(***************************************************************************)
\* sub in s
Contains(sub, s) ==
    \E i \in 1..(Len(s) - Len(sub) + 1) : SubSeq(s, i, i + Len(sub) - 1) = sub

\* s.startswith(pre)
StartsWith(s, pre) == Len(pre) <= Len(s) /\ SubSeq(s, 1, Len(pre)) = pre

\* s.endswith(suf)
EndsWith(s, suf) ==
    Len(suf) <= Len(s) /\ SubSeq(s, Len(s) - Len(suf) + 1, Len(s)) = suf

IsSpace(c) == c = " "

\* s.split(): the maximal runs of non-whitespace characters, in order
RECURSIVE SplitFrom(_, _, _)
SplitFrom(s, i, cur) ==
    IF i > Len(s)
    THEN IF cur = "" THEN <<>> ELSE <<cur>>
    ELSE IF IsSpace(SubSeq(s, i, i))
         THEN IF cur = "" THEN SplitFrom(s, i + 1, "")
              ELSE <<cur>> \o SplitFrom(s, i + 1, "")
         ELSE SplitFrom(s, i + 1, cur \o SubSeq(s, i, i))

Split(s) == SplitFrom(s, 1, "")

\* Python values of get_remote_info: None, and a dict or a RemoteInfo with
\* the items (keyword arguments) it holds
NoneValue == [type |-> "NoneType", items |-> <<>>]

\* The environment variable is not set
EnvUnset == [kind |-> "unset", has_space |-> FALSE, file |-> "none",
             mapping |-> <<>>]

(***************************************************************************)
(* The Aims calculator.                                                    *)
(***************************************************************************)
\* The system objects calculate() is called on, with their periodic
\* boundary flags: a molecule, a bulk crystal and a slab.
AtomsObjects == {"mol", "bulk", "slab"}

get_pbc(a) ==
    CASE a = "mol"  -> <<FALSE, FALSE, FALSE>>
      [] a = "bulk" -> <<TRUE, TRUE, TRUE>>
      [] a = "slab" -> <<TRUE, TRUE, FALSE>>

AnyPbc(a) == \E i \in 1..3 : get_pbc(a)[i]
AllPbc(a) == \A i \in 1..3 : get_pbc(a)[i]

\* The constructor is given at most MaxParams of the keys below.
MaxParams == 2

\* Keys the constructor may have been given (**kwargs), each with its value.
ParamKeys == {"xc", "k_grid", "k_offset", "symmetry_reduced_k_grid",
              "compute_analytical_stress", "relax_unit_cell",
              "external_pressure", "check_cpu_consistency"}

ParamValue(k) == IF k = "k_grid" THEN "1 1 1" ELSE "v:" \o k

\* What the get_k_grid callback may return: a Python value with its type.
KGridReturns ==
    { [type |-> "str", val |-> "2 2 2"],
      [type |-> "str", val |-> "a b c"],
      [type |-> "str", val |-> "2  2"],
      [type |-> "str", val |-> "2 2 2 2"],
      [type |-> "int", val |-> "8"] }

Unset == [type |-> "unset", val |-> ""]

\* Requested property lists
PropertyLists == { <<"energy", "forces", "stress">>, <<"energy">> }

\* handle_nonperiodic(atoms, properties, allow_mixed=True) of
\* wfl/calculators/utils.py: the system is nonperiodic unless it is
\* periodic in all three directions, and stress is then not computed.
handle_nonperiodic_flag(a) == ~AllPbc(a)

handle_nonperiodic_props(a, props) ==
    IF ~AllPbc(a) THEN SelectSeq(props, LAMBDA p : p # "stress") ELSE props

\* aims.py 154-156: the keys to remove for a system with PBC FFF
rm_parameters(params) ==
    { param_i \in DOMAIN params :
        \/ Contains("k_grid", param_i)
        \/ StartsWith(param_i, "k_")
        \/ Contains("stress", param_i)
        \/ param_i \in {"relax_unit_cell", "external_pressure"} }

\* aims.py 157-158: self.parameters.pop(param_i) for every such key
PopAll(params, keys) == [k \in (DOMAIN params) \ keys |-> params[k]]

\* The assertion with its token count left out
KGridAssert_TypeOnly(kg) == kg.type = "str"

\* aims.py 162: isinstance(k_grid, str) and len(k_grid.split()) == 3
KGridAssert(kg) == kg.type = "str" /\ Len(Split(kg.val)) = 3

\* aims.py 163: self.parameters['k_grid'] = k_grid
SetItem(params, key, value) ==
    [k \in (DOMAIN params) \cup {key} |-> IF k = key THEN value ELSE params[k]]

\* aims.py 127: self.parameters = deepcopy(self.initial_parameters)
RestoreParameters == initial_parameters

\* The exception classes of the model.  KeyboardInterrupt stands for the
\* exceptions that derive from BaseException and not from Exception.
IsException(e) == e \notin {"Returned", "NotRun", "None", "KeyboardInterrupt"}

\* What super().calculate() (execution and result parsing) may do
ExecOutcomes == {"Returned", "RuntimeError", "KeyboardInterrupt"}

\* A success path that leaves an earlier marker in place
DelMarker_Keep(inf, a) == inf

\* aims.py 116-117: del atoms.info['DFT_FAILED_AIMS'] when it is there
DelMarker(inf, a) == [inf EXCEPT ![a] = FALSE]

\* aims.py 119: atoms.info['DFT_FAILED_AIMS'] = True
SetMarker(inf, a) == [inf EXCEPT ![a] = TRUE]

InitAims ==
    /\ initial_parameters \in
         { [k \in S |-> ParamValue(k)] :
             S \in {T \in SUBSET ParamKeys : Cardinality(T) <= MaxParams} }
    /\ parameters = initial_parameters
    /\ get_k_grid \in {"None", "callback"}
    /\ self_atoms = "None"
    /\ info = [a \in AtomsObjects |-> FALSE]
    /\ pc = "idle"
    /\ atoms = "None"
    /\ marker_at_entry = FALSE
    /\ properties = <<>>
    /\ calculation_succeeded = "unbound"
    /\ k_grid = Unset
    /\ exec_result = "NotRun"
    /\ exc = "None"
    /\ setup_calls = 0
    /\ clean_log = <<>>
    /\ raised = "NoCall"
    /\ g_n = 0 /\ g_input = <<>> /\ g_pos = 0 /\ g_out = <<>> /\ g_pc = "off"
    /\ ri_remote_info = NoneValue /\ ri_remote_label = "None"
    /\ ri_env = EnvUnset /\ ri_stack = <<>> /\ ri_result = NoneValue
    /\ ri_exc = "None" /\ ri_warnings = <<>> /\ ri_stderr = <<>>
    /\ ri_pc = "off"

\* The call leaves calculate() raising e ("None": it returns); the locals
\* properties and calculation_succeeded go with its frame.
Exit(e) ==
    /\ pc' = "idle"
    /\ raised' = e
    /\ properties' = <<>>
    /\ calculation_succeeded' = "unbound"
    /\ UNCHANGED <<grouperVars, remoteVars>>

\* The call goes on to the step at label.
Goto(label) ==
    /\ pc' = label
    /\ UNCHANGED <<raised, grouperVars, remoteVars>>

\* aims.py 104-105: entry of calculate(atoms, properties)
Call(a, props) ==
    /\ pc = "idle"
    /\ atoms' = a
    /\ marker_at_entry' = (a # "None" /\ info[a])
    /\ properties' = props
    /\ self_atoms' = IF a # "None" THEN a ELSE self_atoms
    /\ calculation_succeeded' = "unbound"
    /\ k_grid' = Unset
    /\ exec_result' = "NotRun"
    /\ exc' = "None"
    /\ setup_calls' = 0
    /\ clean_log' = <<>>
    /\ Goto("setup_calc_params")
    /\ UNCHANGED <<parameters, initial_parameters, get_k_grid, info>>

\* aims.py 108 and 149-165: _setup_calc_params(properties, self.get_k_grid).
\* kg_exc is what the callback raises ("None": nothing) and kg_ret what it
\* returns.
SetupCalcParams(kg_exc, kg_ret) ==
    /\ pc = "setup_calc_params"
    /\ IF self_atoms = "None"
       THEN \* handle_nonperiodic reads the periodicity of None
            /\ Exit("AttributeError")
            /\ UNCHANGED <<parameters, k_grid>>
       ELSE IF handle_nonperiodic_flag(self_atoms)
       THEN /\ parameters' =
                  IF ~AnyPbc(self_atoms)
                  THEN PopAll(parameters, rm_parameters(parameters))
                  ELSE parameters
            /\ properties' = handle_nonperiodic_props(self_atoms, properties)
            /\ Goto("setup_rundir")
            /\ UNCHANGED <<k_grid, calculation_succeeded>>
       ELSE IF get_k_grid = "None"
       THEN /\ properties' = handle_nonperiodic_props(self_atoms, properties)
            /\ Goto("setup_rundir")
            /\ UNCHANGED <<parameters, k_grid, calculation_succeeded>>
       ELSE IF kg_exc # "None"
       THEN /\ Exit(kg_exc)
            /\ UNCHANGED <<parameters, k_grid>>
       ELSE /\ k_grid' = kg_ret
            /\ IF ~KGridAssert(kg_ret)
               THEN /\ Exit("AssertionError")
                    /\ UNCHANGED parameters
               ELSE /\ parameters' = SetItem(parameters, "k_grid", kg_ret.val)
                    /\ properties' =
                          handle_nonperiodic_props(self_atoms, properties)
                    /\ Goto("setup_rundir")
                    /\ UNCHANGED calculation_succeeded
    /\ UNCHANGED <<initial_parameters, get_k_grid, self_atoms, info, atoms,
                   marker_at_entry,
                   exec_result, exc, setup_calls, clean_log>>

\* aims.py 111: self.setup_rundir(), which is outside the try statement
SetupRundir(e) ==
    /\ pc = "setup_rundir"
    /\ setup_calls' = setup_calls + 1
    /\ IF e # "None"
       THEN Exit(e)
       ELSE Goto("execute") /\ UNCHANGED <<properties, calculation_succeeded>>
    /\ UNCHANGED <<parameters, initial_parameters, get_k_grid, self_atoms, info,
                   atoms, marker_at_entry, k_grid, exec_result, exc, clean_log>>

\* aims.py 113-121: the try body and its except clause.  outcome is what
\* super().calculate() does.  atoms.info on atoms = None raises
\* AttributeError: in the try body (116) it is caught by the except clause,
\* whose own first statement (119) raises it again before 120 is reached.
Execute(outcome) ==
    /\ pc = "execute"
    /\ exec_result' = outcome
    /\ IF outcome = "Returned"
       THEN /\ calculation_succeeded' = "True"
            /\ IF atoms = "None"
               THEN exc' = "AttributeError" /\ UNCHANGED info
               ELSE exc' = "None" /\ info' = DelMarker(info, atoms)
       ELSE IF IsException(outcome)
       THEN IF atoms = "None"
            THEN /\ exc' = "AttributeError"
                 /\ UNCHANGED <<info, calculation_succeeded>>
            ELSE /\ info' = SetMarker(info, atoms)
                 /\ calculation_succeeded' = "False"
                 /\ exc' = outcome
       ELSE \* not an Exception: the except clause does not run
            /\ exc' = outcome
            /\ UNCHANGED <<info, calculation_succeeded>>
    /\ Goto("finally")
    /\ UNCHANGED <<parameters, initial_parameters, get_k_grid, self_atoms,
                   atoms, marker_at_entry, properties, k_grid, setup_calls,
                   clean_log>>

\* aims.py 122-127: the finally clause.  clean_exc is what clean_rundir()
\* raises.  Reading calculation_succeeded while it is unbound raises
\* UnboundLocalError before clean_rundir() is called.
Finally(clean_exc) ==
    /\ pc = "finally"
    /\ IF calculation_succeeded = "unbound"
       THEN /\ Exit("UnboundLocalError")
            /\ UNCHANGED <<clean_log, parameters>>
       ELSE /\ clean_log' = Append(clean_log, calculation_succeeded = "True")
            /\ IF clean_exc # "None"
               THEN Exit(clean_exc) /\ UNCHANGED parameters
               ELSE parameters' = RestoreParameters /\ Exit(exc)
    /\ exc' = "None"
    /\ UNCHANGED <<initial_parameters, get_k_grid, self_atoms, info, atoms,
                   marker_at_entry,
                   k_grid, exec_result, setup_calls>>

NextAims ==
    \/ \E a \in AtomsObjects \cup {"None"}, props \in PropertyLists :
          Call(a, props)
    \/ \E kg_exc \in {"None", "LookupError"}, kg_ret \in KGridReturns :
          SetupCalcParams(kg_exc, kg_ret)
    \/ \E e \in {"None", "PermissionError"} : SetupRundir(e)
    \/ \E outcome \in ExecOutcomes : Execute(outcome)
    \/ \E clean_exc \in {"None", "OSError"} : Finally(clean_exc)

SpecAims == InitAims /\ [][NextAims]_vars

(***************************************************************************)
(* Claims about the Aims calculator.                                       *)
(***************************************************************************)
\* A call has finished (the calculator is between calls, and not new).
CallFinished == pc = "idle" /\ raised # "NoCall"

\* The keys that only make sense for periodic or stress calculations
PeriodicOnlyKey(k) ==
    \/ Contains("k_grid", k)
    \/ StartsWith(k, "k_")
    \/ Contains("stress", k)
    \/ k = "relax_unit_cell"
    \/ k = "external_pressure"

\* C1: whenever calculate() has exited, normally or with an exception raised
\* at any step, the parameter mapping equals the construction-time snapshot.
C1_ParametersEqualSnapshotAfterCall ==
    pc = "idle" => parameters = initial_parameters

\* clean_rundir() raised in the call that has finished.
CleanupRaised == raised = "OSError"

\* C2: when the execution or result-parsing step raised E, the exception
\* that reaches the caller of calculate() is E itself, with or without a
\* system object passed.  Stated for E derived from Exception and for the
\* calls whose cleanup raised nothing itself.
C2_ExecutionExceptionReachesCaller ==
    (CallFinished /\ IsException(exec_result) /\ ~CleanupRaised)
        => raised = exec_result

\* C3: a call whose run directory was set up has called clean_rundir exactly
\* once when it exits, with a success flag that is true iff the call did not
\* raise.  Stated for the calls in which setup_rundir returned, the
\* execution step returned or raised an exception derived from Exception,
\* and clean_rundir raised nothing itself.
C3_CleanupOnceWithOutcomeFlag ==
    (/\ CallFinished
     /\ exec_result = "Returned" \/ IsException(exec_result)
     /\ ~CleanupRaised)
        => /\ Len(clean_log) = 1
           /\ clean_log[1] <=> (raised = "None")

C5_NonperiodicKeysAbsentThenBack ==
    /\ (pc = "execute" /\ ~AnyPbc(self_atoms))
         => /\ \A k \in DOMAIN parameters : ~PeriodicOnlyKey(k)
            /\ \A k \in DOMAIN initial_parameters :
                  ~PeriodicOnlyKey(k)
                     => /\ k \in DOMAIN parameters
                        /\ parameters[k] = initial_parameters[k]
    /\ (/\ CallFinished
        /\ exec_result = "Returned" \/ IsException(exec_result)
        /\ ~AnyPbc(self_atoms))
         => \A k \in DOMAIN initial_parameters :
               PeriodicOnlyKey(k)
                  => /\ k \in DOMAIN parameters
                     /\ parameters[k] = initial_parameters[k]

\* The first part of C5 alone: what the program is executed with.
C5_NonperiodicKeysAbsentAtExecution ==
    (pc = "execute" /\ ~AnyPbc(self_atoms))
        => /\ \A k \in DOMAIN parameters : ~PeriodicOnlyKey(k)
           /\ \A k \in DOMAIN initial_parameters :
                 ~PeriodicOnlyKey(k)
                    => /\ k \in DOMAIN parameters
                       /\ parameters[k] = initial_parameters[k]

\* The value is a string of exactly three whitespace-separated tokens:
\* three places where a token begins.
TokenStarts(str) ==
    { i \in 1..Len(str) :
        /\ SubSeq(str, i, i) # " "
        /\ (i = 1 \/ SubSeq(str, i - 1, i - 1) = " ") }

IsThreeTokenString(v) == v.type = "str" /\ Cardinality(TokenStarts(v.val)) = 3

Digits == {"0", "1", "2", "3", "4", "5", "6", "7", "8", "9"}

IsIntegerToken(t) ==
    /\ Len(t) > 0
    /\ \A i \in 1..Len(t) : SubSeq(t, i, i) \in Digits

IsIntegerTriple(v) ==
    /\ IsThreeTokenString(v)
    /\ \A i \in 1..Len(Split(v.val)) : IsIntegerToken(Split(v.val)[i])

\* The call went on after the callback returned, with its value injected.
KGridInjected ==
    /\ pc \in {"setup_rundir", "execute", "finally"}
    /\ "k_grid" \in DOMAIN parameters
    /\ parameters["k_grid"] = k_grid.val

\* The call failed in the assertion: nothing injected, no run directory set
\* up, nothing executed.
KGridFailedFast ==
    /\ pc = "idle" /\ raised = "AssertionError"
    /\ setup_calls = 0 /\ exec_result = "NotRun"
    /\ ~("k_grid" \in DOMAIN parameters /\ parameters["k_grid"] = k_grid.val)

\* C10 as stated: once the callback has returned, its value is injected only
\* if it is a string of three integers, and the call fails fast otherwise.
C10_InjectedOnlyIfIntegerTriple ==
    k_grid # Unset
        => IF IsIntegerTriple(k_grid)
           THEN pc # "idle" => KGridInjected
           ELSE KGridFailedFast

\* C10 as amended: the value is injected only if it is a string that splits
\* on whitespace into exactly three tokens, whatever the tokens are; any
\* other value fails the assertion before anything is injected or executed.
C10_InjectedOnlyIfThreeTokenString ==
    k_grid # Unset
        => IF IsThreeTokenString(k_grid)
           THEN pc # "idle" => KGridInjected
           ELSE KGridFailedFast

\* A callback value of two tokens has made the call fail fast.
C10_Witness ==
    /\ k_grid = [type |-> "str", val |-> "2  2"]
    /\ KGridFailedFast
    /\ AllPbc(self_atoms)

(***************************************************************************)
(* grouper(n, iterable)                                                    *)
(***************************************************************************)
\* Largest group size and longest input of the model
MaxN == 3
MaxLen == 4

Items == {"a", "b"}

Min(x, y) == IF x <= y THEN x ELSE y

\* An islice that gives up when fewer than n items are left
Islice_FullGroupsOnly(input, pos, n) ==
    IF pos + n <= Len(input) THEN SubSeq(input, pos + 1, pos + n) ELSE <<>>

\* utils.py 28: tuple(itertools.islice(it, n)), the next at most n items of
\* the iterator it, which has consumed pos items of input
Islice(input, pos, n) == SubSeq(input, pos + 1, Min(pos + n, Len(input)))

InitGrouper ==
    /\ g_n \in 0..MaxN
    /\ g_input \in UNION { [1..len -> Items] : len \in 0..MaxLen }
    /\ g_pos = 0
    /\ g_out = <<>>
    /\ g_pc = "loop"
    /\ parameters = <<>> /\ initial_parameters = <<>> /\ get_k_grid = "None"
    /\ self_atoms = "None" /\ info = <<>> /\ pc = "off" /\ atoms = "None"
    /\ marker_at_entry = FALSE /\ properties = <<>>
    /\ calculation_succeeded = "unbound" /\ k_grid = Unset
    /\ exec_result = "NotRun" /\ exc = "None" /\ setup_calls = 0
    /\ clean_log = <<>> /\ raised = "NoCall"
    /\ ri_remote_info = NoneValue /\ ri_remote_label = "None"
    /\ ri_env = EnvUnset /\ ri_stack = <<>> /\ ri_result = NoneValue
    /\ ri_exc = "None" /\ ri_warnings = <<>> /\ ri_stderr = <<>>
    /\ ri_pc = "off"

\* utils.py 27-31: one turn of the loop, up to the yield or the return
GrouperLoop ==
    /\ g_pc = "loop"
    /\ LET chunk == Islice(g_input, g_pos, g_n) IN
         /\ g_pos' = g_pos + Len(chunk)
         /\ IF chunk = <<>>
            THEN g_pc' = "returned" /\ UNCHANGED g_out
            ELSE g_out' = Append(g_out, chunk) /\ UNCHANGED g_pc
    /\ UNCHANGED <<g_n, g_input, aimsVars, remoteVars>>

NextGrouper == GrouperLoop

\* The consumer asks for the next group until the generator returns.
SpecGrouper ==
    InitGrouper /\ [][NextGrouper]_vars /\ WF_vars(GrouperLoop)

RECURSIVE Flatten(_)
Flatten(seqs) ==
    IF seqs = <<>> THEN <<>> ELSE Head(seqs) \o Flatten(Tail(seqs))

CeilDiv(x, y) == (x + y - 1) \div y

\* What grouper has yielded once it has returned
GrouperResult ==
    LET L == Len(g_input) IN
    /\ Len(g_out) = CeilDiv(L, g_n)
    /\ \A i \in 1..Len(g_out) :
          /\ g_out[i] # <<>>
          /\ i < Len(g_out) => Len(g_out[i]) = g_n
          /\ i = Len(g_out) =>
                Len(g_out[i]) = (IF L % g_n = 0 THEN g_n ELSE L % g_n)
    /\ Flatten(g_out) = g_input
    /\ L = 0 => g_out = <<>>

\* C9: for n >= 1 and a finite input of length L, grouper terminates having
\* yielded ceil(L/n) tuples, all of size n except a last one of size L mod n
\* when n does not divide L, none empty, whose concatenation is the input;
\* nothing for L = 0.
C9_GrouperChunks ==
    /\ []((g_n >= 1 /\ g_pc = "returned") => GrouperResult)
    /\ (g_n >= 1) ~> (g_pc = "returned")

\* An input of four items has come out as a group of three and one of one.
C9_Witness ==
    /\ g_pc = "returned" /\ g_n = 3 /\ Len(g_input) = 4
    /\ Len(g_out) = 2 /\ Len(g_out[2]) = 1

(***************************************************************************)
(* get_remote_info(remote_info, remote_label, env_var)                     *)
(***************************************************************************)
\* Most caller frames on the stack and most keys in the mapping
MaxStack == 2
MaxKeys == 2

\* s.split(sep) for a one-character separator
RECURSIVE SplitOnFrom(_, _, _, _)
SplitOnFrom(str, sep, i, cur) ==
    IF i > Len(str)
    THEN <<cur>>
    ELSE IF SubSeq(str, i, i) = sep
         THEN <<cur>> \o SplitOnFrom(str, sep, i + 1, "")
         ELSE SplitOnFrom(str, sep, i + 1, cur \o SubSeq(str, i, i))

SplitOn(str, sep) == SplitOnFrom(str, sep, 1, "")

\* s.strip()
RECURSIVE Strip(_)
Strip(str) ==
    IF Len(str) > 0 /\ IsSpace(SubSeq(str, 1, 1))
    THEN Strip(SubSeq(str, 2, Len(str)))
    ELSE IF Len(str) > 0 /\ IsSpace(SubSeq(str, Len(str), Len(str)))
         THEN Strip(SubSeq(str, 1, Len(str) - 1))
         ELSE str

\* utils.py 86: re.search(kk + '$', sl), for patterns kk made of literal
\* characters and of '.', which stands for any character
ReSearchAtEnd(kk, sl) ==
    /\ Len(kk) <= Len(sl)
    /\ \A i \in 1..Len(kk) :
          LET p == SubSeq(kk, i, i)
              c == SubSeq(sl, Len(sl) - Len(kk) + i, Len(sl) - Len(kk) + i)
          IN  p = "." \/ p = c

\* The frames of the dispatch machinery, as 'filename::function'
FrameAutopara == "wfl/autoparallelize/base.py::autoparallelize"
FrameAutoparaLL == "wfl/autoparallelize/base.py::_autoparallelize_ll"
FrameGetRemoteInfo == "wfl/autoparallelize/utils.py::get_remote_info"

\* The frames of the callers
CallerFrames == {"a.py::f", "b.py::g", "axpy::f"}

\* The keys a mapping in the environment variable may have
KeyPool == {"f", "g", "f,g", "g, f", "a.py::f", "sys_name"}

\* The labels a caller may pass
LabelPool == {"None", "f", "f,g"}

\* The value of the i-th key of a mapping
ConfigNames == <<"A", "B", "C", "D">>

\* utils.py 73 and 75: the labels of the stack without its last frame, or
\* nothing when a label was passed
StackRemoteLabel(stack, remote_label) ==
    IF remote_label = "None" THEN SubSeq(stack, 1, Len(stack) - 1) ELSE <<>>

\* utils.py 76-78
IsPassThrough(label) ==
    \/ EndsWith(label, "autoparallelize/base.py::autoparallelize")
    \/ EndsWith(label, "autoparallelize/base.py::_autoparallelize_ll")
    \/ EndsWith(label, "autoparallelize/utils.py::get_remote_info")

\* utils.py 76-80: pop the pass-through frames off the end
RECURSIVE StripPassThrough(_)
StripPassThrough(labels) ==
    IF Len(labels) > 0 /\ IsPassThrough(labels[Len(labels)])
    THEN StripPassThrough(SubSeq(labels, 1, Len(labels) - 1))
    ELSE labels

\* utils.py 84: [sl.strip() for sl in ri_k.split(',')]
KSplit(ri_k) ==
    LET parts == SplitOn(ri_k, ",") IN [i \in 1..Len(parts) |-> Strip(parts[i])]

\* seq[-n:] for n >= 1
LastN(seq, n) ==
    IF n >= Len(seq) THEN seq ELSE SubSeq(seq, Len(seq) - n + 1, Len(seq))

\* utils.py 86: all([re.search(kk + '$', sl) for sl, kk in
\* zip(stack_remote_label[-len(ksplit):], ksplit)]); zip stops at the
\* shorter of its two arguments
StackMatches(stack_remote_label, ksplit) ==
    LET ends == LastN(stack_remote_label, Len(ksplit)) IN
    \A i \in 1..Min(Len(ends), Len(ksplit)) : ReSearchAtEnd(ksplit[i], ends[i])

\* The condition without its test that no label was passed
KeyMatches_NoLabelTest(remote_label, ri_k, stack_remote_label) ==
    \/ StackMatches(stack_remote_label, KSplit(ri_k))
    \/ remote_label = ri_k

\* utils.py 86-87: the condition of the loop over the keys
KeyMatches(remote_label, ri_k, stack_remote_label) ==
    \/ remote_label = "None" /\ StackMatches(stack_remote_label, KSplit(ri_k))
    \/ remote_label = ri_k

\* utils.py 83-93: the index of the first key that matches, 0 when none does
FirstMatch(items, remote_label, stack_remote_label) ==
    LET hits == { i \in 1..Len(items) :
                    KeyMatches(remote_label, items[i].key, stack_remote_label) }
    IN  IF hits = {} THEN 0 ELSE CHOOSE i \in hits : \A j \in hits : i <= j

\* A test that looks at the first key only
HasSysName_FirstKeyOnly(items) == Len(items) > 0 /\ items[1].key = "sys_name"

\* utils.py 64: 'sys_name' in remote_info
HasSysName(items) == \E i \in 1..Len(items) : items[i].key = "sys_name"

\* utils.py 89: remote_info[ri_k], the keyword arguments of one configuration
ValueAt(items, i) ==
    [type |-> "dict", items |-> <<[key |-> "sys_name", val |-> items[i].val]>>]

\* utils.py 95-96: RemoteInfo(**remote_info) for a dict
Coerce(v) ==
    IF v.type = "dict" THEN [type |-> "RemoteInfo", items |-> v.items] ELSE v

Returns(v, warns, err) ==
    [result |-> v, exc |-> "None", warnings |-> warns, stderr |-> err]

Raises(e, warns) ==
    [result |-> NoneValue, exc |-> e, warnings |-> warns, stderr |-> <<>>]

\* utils.py 51-98: what the call returns or raises, and what it reports
GetRemoteInfoOutcome(remote_info, remote_label, env, stack) ==
    IF ~(remote_info.type = "NoneType" /\ env.kind # "unset")
    THEN Returns(Coerce(remote_info), <<>>, <<>>)
    ELSE
      LET \* 52-59: the text is parsed, or on failure kept as it is
          warns1 == IF env.kind = "yaml_error" /\ env.has_space
                    THEN <<"has whitespace, but not parseable">>
                    ELSE <<>>
          \* 60: isinstance(remote_info, str)
          is_str == env.kind \in {"yaml_error", "yaml_string"}
      IN
      IF is_str /\ env.file = "missing"
      THEN Raises("FileNotFoundError", warns1)
      ELSE IF env.kind = "yaml_null"
      THEN Raises("TypeError", warns1)
      ELSE
        LET items == env.mapping IN
        IF HasSysName(items)
        THEN Returns(Coerce([type |-> "dict", items |-> items]),
                     Append(warns1, "appears to be a RemoteInfo kwargs"), <<>>)
        ELSE
          LET stack_remote_label ==
                  StripPassThrough(StackRemoteLabel(stack, remote_label))
              m == FirstMatch(items, remote_label, stack_remote_label)
          IN  IF m = 0
              THEN Returns(NoneValue, warns1, <<>>)
              ELSE Returns(Coerce(ValueAt(items, m)), warns1,
                           <<items[m].key>>)

\* The mappings: at most MaxKeys distinct keys in some order
Mappings ==
    { [i \in 1..Len(ks) |-> [key |-> ks[i], val |-> ConfigNames[i]]] :
        ks \in { q \in UNION { [1..len -> KeyPool] : len \in 0..MaxKeys } :
                   \A i, j \in 1..Len(q) : i # j => q[i] # q[j] } }

\* What the environment variable may hold
Environments ==
    {EnvUnset}
    \cup { [kind |-> "yaml_mapping", has_space |-> FALSE, file |-> "none",
            mapping |-> m] : m \in Mappings }
    \cup { [kind |-> "yaml_string", has_space |-> FALSE, file |-> "mapping",
            mapping |-> m] : m \in Mappings }
    \cup { [kind |-> "yaml_string", has_space |-> FALSE, file |-> "missing",
            mapping |-> <<>>],
           [kind |-> "yaml_null", has_space |-> FALSE, file |-> "none",
            mapping |-> <<>>] }
    \cup { [kind |-> "yaml_error", has_space |-> sp, file |-> "missing",
            mapping |-> <<>>] : sp \in BOOLEAN }
    \cup { [kind |-> "yaml_error", has_space |-> TRUE, file |-> "mapping",
            mapping |-> m] : m \in Mappings }

\* The stacks: the callers' frames, then the dispatch frames the call came
\* through, then get_remote_info's own frame
Stacks ==
    { callers \o dispatch \o <<FrameGetRemoteInfo>> :
        callers \in UNION { [1..len -> CallerFrames] : len \in 1..MaxStack },
        dispatch \in { <<>>, <<FrameAutopara>>,
                       <<FrameAutopara, FrameAutoparaLL>> } }

\* What the caller may pass as remote_info: nothing, a dict of keyword
\* arguments, or a RemoteInfo
ExplicitValues ==
    { NoneValue,
      [type |-> "dict", items |-> <<[key |-> "sys_name", val |-> "X"]>>],
      [type |-> "RemoteInfo", items |-> <<[key |-> "sys_name", val |-> "X"]>>] }

InitRemote ==
    /\ ri_remote_info \in ExplicitValues
    /\ ri_remote_label \in LabelPool
    /\ ri_env \in Environments
    /\ ri_stack \in Stacks
    /\ ri_result = NoneValue
    /\ ri_exc = "None"
    /\ ri_warnings = <<>>
    /\ ri_stderr = <<>>
    /\ ri_pc = "call"
    /\ parameters = <<>> /\ initial_parameters = <<>> /\ get_k_grid = "None"
    /\ self_atoms = "None" /\ info = <<>> /\ pc = "off" /\ atoms = "None"
    /\ marker_at_entry = FALSE /\ properties = <<>>
    /\ calculation_succeeded = "unbound" /\ k_grid = Unset
    /\ exec_result = "NotRun" /\ exc = "None" /\ setup_calls = 0
    /\ clean_log = <<>> /\ raised = "NoCall"
    /\ g_n = 0 /\ g_input = <<>> /\ g_pos = 0 /\ g_out = <<>> /\ g_pc = "off"

\* utils.py 34-98: the call of get_remote_info
GetRemoteInfo ==
    /\ ri_pc = "call"
    /\ LET out == GetRemoteInfoOutcome(ri_remote_info, ri_remote_label, ri_env,
                                       ri_stack)
       IN  /\ ri_result' = out.result
           /\ ri_exc' = out.exc
           /\ ri_warnings' = out.warnings
           /\ ri_stderr' = out.stderr
    /\ ri_pc' = "done"
    /\ UNCHANGED <<ri_remote_info, ri_remote_label, ri_env, ri_stack, aimsVars,
                   grouperVars>>

NextRemote == GetRemoteInfo

SpecRemote == InitRemote /\ [][NextRemote]_vars

(***************************************************************************)
(* Claims about get_remote_info.                                           *)
(***************************************************************************)
\* The call is over, no remote_info was passed, and the environment variable
\* gave a mapping (inline, or in the file it names).
ResolvedFromMapping ==
    /\ ri_pc = "done"
    /\ ri_remote_info.type = "NoneType"
    /\ ri_env.kind = "yaml_mapping" \/ ri_env.file = "mapping"

\* The mapping is a dictionary of named configurations.
DictOfConfigs ==
    \A i \in 1..Len(ri_env.mapping) : ri_env.mapping[i].key # "sys_name"

\* The record made of the configuration under the i-th key
RecordAt(i) ==
    [type |-> "RemoteInfo",
     items |-> <<[key |-> "sys_name", val |-> ri_env.mapping[i].val]>>]

\* C6: with a label, the result is the record of the key equal to the label,
\* and None when no key equals it, whatever the call stack is.
C6_LabelSelectsEqualKey ==
    (ResolvedFromMapping /\ DictOfConfigs /\ ri_remote_label # "None")
        => /\ ri_exc = "None"
           /\ \A i \in 1..Len(ri_env.mapping) :
                 ri_env.mapping[i].key = ri_remote_label
                    => ri_result = RecordAt(i)
           /\ (\A i \in 1..Len(ri_env.mapping) :
                 ri_env.mapping[i].key # ri_remote_label)
                    => ri_result = NoneValue

\* The label "f,g" has selected the second key, past the key "f".
C6_Witness ==
    /\ ResolvedFromMapping /\ ri_remote_label = "f,g"
    /\ Len(ri_env.mapping) = 2
    /\ ri_env.mapping[1].key = "f" /\ ri_env.mapping[2].key = "f,g"
    /\ ri_result = RecordAt(2)
    /\ ri_stack[1] = "a.py::f"

\* The identity path: the stack without get_remote_info's own frame and
\* without the dispatch frames at its end
IdentityPath == StripPassThrough(SubSeq(ri_stack, 1, Len(ri_stack) - 1))

\* The k patterns of a key match, right-aligned, the last k entries of the
\* identity path, which must have that many.
RightAlignedMatch(ri_k) ==
    LET ksplit == KSplit(ri_k)
        k == Len(ksplit)
        n == Len(IdentityPath)
    IN  /\ k <= n
        /\ \A j \in 1..k : ReSearchAtEnd(ksplit[j], IdentityPath[n - k + j])

\* C7: without a label, the result is the record of the first key whose
\* patterns match right-aligned the end of the identity path, for a path of
\* any length, and None when no key matches.
C7_FirstRightAlignedKey ==
    (ResolvedFromMapping /\ DictOfConfigs /\ ri_remote_label = "None")
        => /\ ri_exc = "None"
           /\ \A i \in 1..Len(ri_env.mapping) :
                 (/\ RightAlignedMatch(ri_env.mapping[i].key)
                  /\ \A j \in 1..(i - 1) :
                        ~RightAlignedMatch(ri_env.mapping[j].key))
                    => ri_result = RecordAt(i)
           /\ (\A i \in 1..Len(ri_env.mapping) :
                 ~RightAlignedMatch(ri_env.mapping[i].key))
                    => ri_result = NoneValue

\* C7 for the identity paths that are at least as long as every key's
\* pattern list.
C7_FirstRightAlignedKeyLongPath ==
    (\A i \in 1..Len(ri_env.mapping) :
        Len(KSplit(ri_env.mapping[i].key)) <= Len(IdentityPath))
        => C7_FirstRightAlignedKey

\* C8: a mapping with the key 'sys_name' is itself the configuration: it is
\* returned as a record, with a warning and no key lookup, whatever the label
\* and the stack are.
C8_SysNameMappingUsedDirectly ==
    (ResolvedFromMapping /\ ~DictOfConfigs)
        => /\ ri_exc = "None"
           /\ ri_result = [type |-> "RemoteInfo", items |-> ri_env.mapping]
           /\ \E i \in 1..Len(ri_warnings) :
                 ri_warnings[i] = "appears to be a RemoteInfo kwargs"
           /\ ri_stderr = <<>>

\* A mapping whose second key is 'sys_name' and whose first key equals the
\* label passed has been returned whole.
C8_Witness ==
    /\ ResolvedFromMapping /\ ri_remote_label = "f"
    /\ Len(ri_env.mapping) = 2
    /\ ri_env.mapping[1].key = "f" /\ ri_env.mapping[2].key = "sys_name"
    /\ ri_result.type = "RemoteInfo" /\ Len(ri_result.items) = 2

====
